---- MODULE Spec2Model ----
(***************************************************************************)
(* Model of gosf: the Salesforce REST client.                              *)
(*   - Config / token / oAuth / Client     (client part of src/logger.go)  *)
(*   - RequestCtx                          (src/request_context.go)        *)
(*   - Operator variants and OpQuery       (src/unnamed/part_000)          *)
(*   - sobject resources, parseErrResponse (src/api.go)                    *)
(* Strings of the query statement are sequences of tokens (a word, " ",    *)
(* "," or "="), so that separators can be told apart from words; URLs are   *)
(* plain strings built by concatenation.                                   *)
(***************************************************************************)
EXTENDS Integers, Sequences, FiniteSets, TLC

VARIABLES
    config,     \* the caller's Config object (NewClient receives a pointer to it)
    client,     \* the Client: constructed flag and its requestCtx
    o_token,    \* oAuth.token, the token pointer shared by all calls of the client
    now,        \* wall clock (seconds), read by time.Now()
    calls,      \* per caller: position inside Client.do and its locals
    nExchanges, \* number of token exchanges performed so far (names the token objects)
    nCalls,     \* number of Do calls started so far
    probe,      \* an Operator whose Make / Handle is invoked directly
    builder,    \* an OpQuery under configuration by its builder methods
    config0     \* the caller's Config as it was before NewClient

vars ==
    <<config, client, o_token, now, calls, nExchanges, nCalls, probe, builder, config0>>

-----------------------------------------------------------------------------
(* Bounds *)

MaxCalls == 2
MaxTime == 3601
MaxBuilderCalls == 4

(* Program constants *)

minAPIVersion == 8
maxAPIVersion == 37
DefaultExpiresIn == 3600
StatusOK == 200
StatusCreated == 201
StatusNoContent == 204

-----------------------------------------------------------------------------
(* Errors.  A Go error value is a record; kind "nil" is the nil error.     *)

NoErr ==
    [kind |-> "nil", msg |-> "", statusCode |-> 0, expect |-> 0, status |-> "",
     errors |-> <<>>]

ErrorsNew(kind, msg) ==
    [kind |-> kind, msg |-> msg, statusCode |-> 0, expect |-> 0, status |-> "",
     errors |-> <<>>]

-----------------------------------------------------------------------------
(* RequestCtx *)

(* isVersionValid with the lower bound excluded *)
isVersionValid_exclusiveMin(ctx) ==
    ctx.version > minAPIVersion /\ ctx.version <= maxAPIVersion

isVersionValid(ctx) ==
    ctx.version >= minAPIVersion /\ ctx.version <= maxAPIVersion

BaseURL(ctx) == ctx.host \o "/services/data"

VersionURL(ctx) == BaseURL(ctx) \o "/v" \o ToString(ctx.version) \o ".0"

(* The object-collection and object-instance URLs the operators ask for:  *)
(* <host>/services/data/v<version>.0/sobjects/<name>[/<id>]                *)
SobjectURLWithName(ctx, sobjectName) == VersionURL(ctx) \o "/sobjects/" \o sobjectName

SobjectURLWithID(ctx, sobjectName, sobjectID) ==
    SobjectURLWithName(ctx, sobjectName) \o "/" \o sobjectID

(* url.QueryEscape on the characters a statement is made of: a space       *)
(* becomes "+", "," becomes "%2C", "=" becomes "%3D", words are unreserved. *)
EscapeToken(t) ==
    CASE t = " " -> "+"
      [] t = "," -> "%2C"
      [] t = "=" -> "%3D"
      [] OTHER -> t

RECURSIVE QueryEscape(_)
QueryEscape(q) ==
    IF q = <<>> THEN "" ELSE EscapeToken(Head(q)) \o QueryEscape(Tail(q))

(* QueryURL built on the base URL, the version segment left out *)
QueryURL_noVersion(ctx, q) == BaseURL(ctx) \o "/query?q=" \o QueryEscape(q)

QueryURL(ctx, q) == VersionURL(ctx) \o "/query?q=" \o QueryEscape(q)

-----------------------------------------------------------------------------
(* Strings as token sequences *)

StrTok(s) == IF s = "" THEN <<>> ELSE <<s>>

RECURSIVE JoinTok(_, _)
JoinTok(parts, sep) ==
    IF parts = <<>> THEN <<>>
    ELSE IF Len(parts) = 1 THEN Head(parts)
    ELSE Head(parts) \o sep \o JoinTok(Tail(parts), sep)

-----------------------------------------------------------------------------
(* Values carried by requests and responses *)

NilResult == [isNil |-> TRUE, ID |-> "", Success |-> FALSE]

NilRequest == [isNil |-> TRUE, method |-> "", url |-> "", data |-> "nil"]

NewRequest(method, url, data) ==
    [isNil |-> FALSE, method |-> method, url |-> url, data |-> data]

(* Request.makeRequest marshals the body; a value JSON cannot encode fails. *)
makeRequest(req) ==
    IF req.data = "chan"
    THEN [httpReq |-> NilRequest, err |-> ErrorsNew("Encode", "json: unsupported type")]
    ELSE [httpReq |-> req, err |-> NoErr]

NoBody == [json |-> "none", id |-> "", success |-> FALSE, errs |-> <<>>]

NilResponse == [isNil |-> TRUE, StatusCode |-> 0, Status |-> "", Body |-> NoBody]

-----------------------------------------------------------------------------
(* OpQuery statement assembly *)

IsValid(c) == c.condition.type \in {"int", "float64", "bool", "string"}

makeSelectStatment(op) ==
    JoinTok([i \in 1..Len(op.selectFileds) |-> StrTok(op.selectFileds[i])], <<",">>)

(* The map built by the first loop: the valid clauses grouped by field, a   *)
(* later clause overwriting an earlier one of the same field.              *)
RECURSIVE whereData(_)
whereData(clauses) ==
    IF clauses = <<>> THEN <<>>
    ELSE LET rest == whereData(SubSeq(clauses, 1, Len(clauses) - 1))
             last == clauses[Len(clauses)]
         IN  IF ~IsValid(last) THEN rest
             ELSE IF \E i \in 1..Len(rest) : rest[i].field = last.field
             THEN [i \in 1..Len(rest) |->
                      IF rest[i].field = last.field THEN last ELSE rest[i]]
             ELSE Append(rest, last)

(* Go iterates a map in an unspecified order: every order of the keys is   *)
(* a possible outcome.                                                     *)
MapOrders(data) ==
    {p \in [1..Len(data) -> 1..Len(data)] :
        \A i, j \in 1..Len(data) : i # j => p[i] # p[j]}

(* makeWhereCluasesStatment rendering every valid clause, without grouping *)
(* the clauses by field                                                    *)
makeWhereCluasesStatment_ungrouped(op, ord) ==
    LET data == SelectSeq(op.whereClauses, IsValid)
    IN  IF Len(data) = 0 THEN <<>>
        ELSE LET filters == [i \in 1..Len(data) |->
                                StrTok(data[i].field) \o <<"=">>
                                    \o StrTok(data[i].condition.text)]
             IN  <<"WHERE", " ">> \o JoinTok(filters, <<",">>)

(* makeWhereCluasesStatment returning early on the stored clauses only, so *)
(* that clauses which are all invalid still render the keyword             *)
makeWhereCluasesStatment_lenOfClauses(op, ord) ==
    LET data == whereData(op.whereClauses)
    IN  IF Len(op.whereClauses) = 0 THEN <<>>
        ELSE LET filters == [i \in 1..Len(data) |->
                                StrTok(data[ord[i]].field) \o <<"=">>
                                    \o StrTok(data[ord[i]].condition.text)]
             IN  <<"WHERE", " ">> \o JoinTok(filters, <<",">>)

makeWhereCluasesStatment(op, ord) ==
    LET data == whereData(op.whereClauses)
    IN  IF Len(data) = 0 THEN <<>>
        ELSE LET filters == [i \in 1..Len(data) |->
                                StrTok(data[ord[i]].field) \o <<"=">>
                                    \o StrTok(data[ord[i]].condition.text)]
             IN  <<"WHERE", " ">> \o JoinTok(filters, <<",">>)

makeOrderStatment(op) ==
    IF op.order = <<>> THEN <<>>
    ELSE LET nullPriority == IF op.nullPriority = <<>>
                             THEN <<"NULL", " ", "FIRST">>
                             ELSE op.nullPriority
         IN  <<"ORDER", " ", "BY", " ">> \o op.order \o <<" ">> \o nullPriority

makeLimitStatment(op) ==
    IF op.limit > 0 THEN <<"LIMIT", " ", ToString(op.limit)>> ELSE <<>>

makeQueryStatment(op, ord) ==
    LET baseQuery == <<"SELECT", " ">> \o makeSelectStatment(op)
                        \o <<" ", "FROM", " ">> \o StrTok(op.sobjectName)
    IN  JoinTok(<<baseQuery,
                  makeWhereCluasesStatment(op, ord),
                  makeOrderStatment(op),
                  makeLimitStatment(op)>>, <<" ">>)

QueryOrders(op) == MapOrders(whereData(op.whereClauses))

-----------------------------------------------------------------------------
(* Operator variants: Make *)

opCreate_Make(op, ctx) ==
    CASE op.sobjectName = "" ->
            [req |-> NilRequest, err |-> ErrorsNew("MissingField", "missing Sobject name")]
      [] op.sobjectName # "" /\ op.sobject = "nil" ->
            [req |-> NilRequest, err |-> ErrorsNew("MissingField", "missing Sobject")]
      [] OTHER ->
            [req |-> NewRequest("POST", SobjectURLWithName(ctx, op.sobjectName), op.sobject),
             err |-> NoErr]

(* opUpdate.Make checking the payload before the object id *)
opUpdate_Make_payloadFirst(op, ctx) ==
    CASE op.sobjectName = "" ->
            [req |-> NilRequest, err |-> ErrorsNew("MissingField", "missing Sobject name")]
      [] op.sobjectName # "" /\ op.sobject = "nil" ->
            [req |-> NilRequest, err |-> ErrorsNew("MissingField", "missing Sobject")]
      [] op.sobjectName # "" /\ op.sobject # "nil" /\ op.sobjectID = "" ->
            [req |-> NilRequest, err |-> ErrorsNew("MissingField", "missing Sobject id")]
      [] OTHER ->
            [req |-> NewRequest("PATCH",
                                SobjectURLWithID(ctx, op.sobjectName, op.sobjectID),
                                op.sobject),
             err |-> NoErr]

opUpdate_Make(op, ctx) ==
    CASE op.sobjectName = "" ->
            [req |-> NilRequest, err |-> ErrorsNew("MissingField", "missing Sobject name")]
      [] op.sobjectName # "" /\ op.sobjectID = "" ->
            [req |-> NilRequest, err |-> ErrorsNew("MissingField", "missing Sobject id")]
      [] op.sobjectName # "" /\ op.sobjectID # "" /\ op.sobject = "nil" ->
            [req |-> NilRequest, err |-> ErrorsNew("MissingField", "missing Sobject")]
      [] OTHER ->
            [req |-> NewRequest("PATCH",
                                SobjectURLWithID(ctx, op.sobjectName, op.sobjectID),
                                op.sobject),
             err |-> NoErr]

opDelete_Make(op, ctx) ==
    CASE op.sobjectName = "" ->
            [req |-> NilRequest, err |-> ErrorsNew("MissingField", "missing Sobject name")]
      [] op.sobjectName # "" /\ op.sobjectID = "" ->
            [req |-> NilRequest, err |-> ErrorsNew("MissingField", "missing Sobject id")]
      [] OTHER ->
            [req |-> NewRequest("DELETE",
                                SobjectURLWithID(ctx, op.sobjectName, op.sobjectID),
                                "nil"),
             err |-> NoErr]

opGet_Make(op, ctx) ==
    CASE op.sobjectName = "" ->
            [req |-> NilRequest, err |-> ErrorsNew("MissingField", "missing Sobject name")]
      [] op.sobjectName # "" /\ op.sobjectID = "" ->
            [req |-> NilRequest, err |-> ErrorsNew("MissingField", "missing Sobject id")]
      [] OTHER ->
            [req |-> NewRequest("GET",
                                SobjectURLWithID(ctx, op.sobjectName, op.sobjectID),
                                "nil"),
             err |-> NoErr]

(* OpQuery.Make without the check of the select fields *)
OpQuery_Make_noFieldsCheck(op, ctx, ord) ==
    CASE op.sobjectName = "" ->
            [req |-> NilRequest, err |-> ErrorsNew("MissingField", "missing Sobject name")]
      [] OTHER ->
            [req |-> NewRequest("GET", QueryURL(ctx, makeQueryStatment(op, ord)), "nil"),
             err |-> NoErr]

(* OpQuery.Make without the check of the object name *)
OpQuery_Make_noNameCheck(op, ctx, ord) ==
    CASE Len(op.selectFileds) <= 0 ->
            [req |-> NilRequest, err |-> ErrorsNew("MissingField", "missing select fields")]
      [] OTHER ->
            [req |-> NewRequest("GET", QueryURL(ctx, makeQueryStatment(op, ord)), "nil"),
             err |-> NoErr]

OpQuery_Make(op, ctx, ord) ==
    CASE op.sobjectName = "" ->
            [req |-> NilRequest, err |-> ErrorsNew("MissingField", "missing Sobject name")]
      [] op.sobjectName # "" /\ Len(op.selectFileds) <= 0 ->
            [req |-> NilRequest, err |-> ErrorsNew("MissingField", "missing select fields")]
      [] OTHER ->
            [req |-> NewRequest("GET", QueryURL(ctx, makeQueryStatment(op, ord)), "nil"),
             err |-> NoErr]

(* Operator.Make, dispatched on the dynamic type of the operator.  ord is   *)
(* the map iteration order met by OpQuery (unused by the other variants).  *)
Make(op, ctx, ord) ==
    CASE op.variant = "create" -> opCreate_Make(op, ctx)
      [] op.variant = "update" -> opUpdate_Make(op, ctx)
      [] op.variant = "delete" -> opDelete_Make(op, ctx)
      [] op.variant = "get"    -> opGet_Make(op, ctx)
      [] op.variant = "query"  -> OpQuery_Make(op, ctx, ord)

-----------------------------------------------------------------------------
(* Operator variants: Handle *)

UnexpectedStatus(operator, code, expect) ==
    [kind |-> "UnexpectedStatus",
     msg |-> operator \o " operator can't handle response with code " \o ToString(code)
                \o ", expect " \o ToString(expect),
     statusCode |-> code, expect |-> expect, status |-> "", errors |-> <<>>]

(* json Decode of a response body into op.result, a pointer to opCreateResult *)
DecodeResult(result, body) ==
    CASE body.json = "object" ->
            [err |-> NoErr,
             val |-> [isNil |-> FALSE, ID |-> body.id, Success |-> body.success]]
      [] body.json = "null" ->
            [err |-> NoErr, val |-> NilResult]
      [] body.json = "array" ->
            [err |-> ErrorsNew("Decode", "json: cannot unmarshal array"),
             val |-> [isNil |-> FALSE, ID |-> "", Success |-> FALSE]]
      [] OTHER ->
            [err |-> ErrorsNew("Decode", "invalid character"), val |-> result]

(* json Decode of a response body into op.target, an empty interface *)
DecodeTarget(target, body) ==
    CASE body.json = "object" -> [err |-> NoErr, val |-> "object:" \o body.id]
      [] body.json = "null"   -> [err |-> NoErr, val |-> "nil"]
      [] body.json = "array"  -> [err |-> NoErr, val |-> "array"]
      [] OTHER -> [err |-> ErrorsNew("Decode", "invalid character"), val |-> target]

(* opCreate.Handle expecting 200 instead of 201 *)
opCreate_Handle_expectsOK(op, resp) ==
    IF resp.StatusCode # StatusOK
    THEN [err |-> UnexpectedStatus("create", resp.StatusCode, StatusOK), op |-> op]
    ELSE LET d == DecodeResult(op.result, resp.Body)
         IN  [err |-> d.err, op |-> [op EXCEPT !.result = d.val]]

opCreate_Handle(op, resp) ==
    IF resp.StatusCode # StatusCreated
    THEN [err |-> UnexpectedStatus("create", resp.StatusCode, StatusCreated), op |-> op]
    ELSE LET d == DecodeResult(op.result, resp.Body)
         IN  [err |-> d.err, op |-> [op EXCEPT !.result = d.val]]

opUpdate_Handle(op, resp) ==
    IF resp.StatusCode # StatusOK
    THEN [err |-> UnexpectedStatus("update", resp.StatusCode, StatusOK), op |-> op]
    ELSE [err |-> NoErr, op |-> op]

opDelete_Handle(op, resp) ==
    IF resp.StatusCode # StatusNoContent
    THEN [err |-> UnexpectedStatus("delete", resp.StatusCode, StatusNoContent), op |-> op]
    ELSE [err |-> NoErr, op |-> op]

(* opGet.Handle taking any status of class 2xx *)
opGet_Handle_any2xx(op, resp) ==
    IF resp.StatusCode \div 100 # 2
    THEN [err |-> UnexpectedStatus("get", resp.StatusCode, StatusOK), op |-> op]
    ELSE LET d == DecodeTarget(op.target, resp.Body)
         IN  [err |-> d.err, op |-> [op EXCEPT !.target = d.val]]

opGet_Handle(op, resp) ==
    IF resp.StatusCode # StatusOK
    THEN [err |-> UnexpectedStatus("get", resp.StatusCode, StatusOK), op |-> op]
    ELSE LET d == DecodeTarget(op.target, resp.Body)
         IN  [err |-> d.err, op |-> [op EXCEPT !.target = d.val]]

OpQuery_Handle(op, resp) ==
    IF resp.StatusCode # StatusOK
    THEN [err |-> UnexpectedStatus("get", resp.StatusCode, StatusOK), op |-> op]
    ELSE LET d == DecodeTarget(op.target, resp.Body)
         IN  [err |-> d.err, op |-> [op EXCEPT !.target = d.val]]

Handle(op, resp) ==
    CASE op.variant = "create" -> opCreate_Handle(op, resp)
      [] op.variant = "update" -> opUpdate_Handle(op, resp)
      [] op.variant = "delete" -> opDelete_Handle(op, resp)
      [] op.variant = "get"    -> opGet_Handle(op, resp)
      [] op.variant = "query"  -> OpQuery_Handle(op, resp)

-----------------------------------------------------------------------------
(* parseErrResponse *)

parseErrResponse(resp) ==
    IF resp.StatusCode \div 100 = 2
    THEN ErrorsNew("NotAnError",
                   "reponse with success code " \o ToString(resp.StatusCode)
                       \o " can not be treated as an error response")
    ELSE CASE resp.Body.json = "array" ->
                 [kind |-> "errResponse", msg |-> "error response",
                  statusCode |-> resp.StatusCode, expect |-> 0, status |-> resp.Status,
                  errors |-> resp.Body.errs]
           [] resp.Body.json = "null" ->
                 [kind |-> "errResponse", msg |-> "error response",
                  statusCode |-> resp.StatusCode, expect |-> 0, status |-> resp.Status,
                  errors |-> <<>>]
           [] resp.Body.json = "object" ->
                 ErrorsNew("Decode", "json: cannot unmarshal object")
           [] OTHER ->
                 ErrorsNew("Decode", "invalid character")

-----------------------------------------------------------------------------
(* token and oAuth *)

NilToken == [isNil |-> TRUE, id |-> 0, AccessToken |-> "", TokenType |-> "", ExpiresAt |-> 0]

(* IsExpired with the deadline one second too late *)
IsExpired_late(tok, t) == t > tok.ExpiresAt + 1

(* IsExpired with the deadline itself counted as expired *)
IsExpired_atDeadline(tok, t) == t >= tok.ExpiresAt

(* token.IsExpired at wall-clock time t *)
IsExpired(tok, t) == t > tok.ExpiresAt

(* exchangeToken that drops the error of decoding a 200 body *)
exchangeToken_ignoreDecodeErr(cfg, outcome, t, id) ==
    IF outcome.transportErr
    THEN [t |-> NilToken, err |-> ErrorsNew("TokenTransport", "Post failed")]
    ELSE IF outcome.StatusCode # 200
    THEN IF ~outcome.decodes
         THEN [t |-> NilToken, err |-> ErrorsNew("TokenDecode", "invalid character")]
         ELSE [t |-> NilToken, err |-> ErrorsNew("OAuthFail", "OAuth fail(" \o outcome.error \o ")")]
    ELSE [t |-> [isNil |-> FALSE, id |-> id,
                 AccessToken |-> outcome.access_token,
                 TokenType |-> outcome.token_type,
                 ExpiresAt |-> t + cfg.ExpiresIn],
          err |-> NoErr]

(* oAuth.exchangeToken.  outcome is what the token endpoint did; t is the   *)
(* wall-clock time when the response is read; id names the new token.      *)
exchangeToken(cfg, outcome, t, id) ==
    IF outcome.transportErr
    THEN [t |-> NilToken, err |-> ErrorsNew("TokenTransport", "Post failed")]
    ELSE IF outcome.StatusCode # 200
    THEN IF ~outcome.decodes
         THEN [t |-> NilToken, err |-> ErrorsNew("TokenDecode", "invalid character")]
         ELSE [t |-> NilToken, err |-> ErrorsNew("OAuthFail", "OAuth fail(" \o outcome.error \o ")")]
    ELSE LET tok == [isNil |-> FALSE, id |-> id,
                     AccessToken |-> outcome.access_token,
                     TokenType |-> outcome.token_type,
                     ExpiresAt |-> t + cfg.ExpiresIn]
         IN  IF ~outcome.decodes
             THEN [t |-> tok, err |-> ErrorsNew("TokenDecode", "invalid character")]
             ELSE [t |-> tok, err |-> NoErr]

IsAuthErr(err) == err.kind \in {"TokenTransport", "TokenDecode", "OAuthFail"}

-----------------------------------------------------------------------------
(* Inputs *)

Host == "https://sf"

Config(e, v) ==
    [Host |-> Host, ClientID |-> "cid", ClientSecret |-> "sec", Username |-> "u",
     Password |-> "pw", ExpiresIn |-> e, APIVersion |-> v]

(* Lifetimes at, below and above zero; versions around both ends of the range *)
Configs == {Config(0, 7), Config(1, 8), Config(-1, 37), Config(1, 38)}

NoOutcome ==
    [transportErr |-> FALSE, StatusCode |-> 0, decodes |-> FALSE,
     access_token |-> "", token_type |-> "", error |-> ""]

TokenOutcomes ==
    { [transportErr |-> TRUE, StatusCode |-> 0, decodes |-> FALSE,
       access_token |-> "", token_type |-> "", error |-> ""],
      [transportErr |-> FALSE, StatusCode |-> 400, decodes |-> TRUE,
       access_token |-> "", token_type |-> "", error |-> "invalid_grant"],
      [transportErr |-> FALSE, StatusCode |-> 503, decodes |-> FALSE,
       access_token |-> "", token_type |-> "", error |-> ""],
      [transportErr |-> FALSE, StatusCode |-> 200, decodes |-> FALSE,
       access_token |-> "", token_type |-> "", error |-> ""],
      [transportErr |-> FALSE, StatusCode |-> 200, decodes |-> FALSE,
       access_token |-> "", token_type |-> "Bearer", error |-> ""],
      [transportErr |-> FALSE, StatusCode |-> 200, decodes |-> TRUE,
       access_token |-> "A1", token_type |-> "Bearer", error |-> ""],
      [transportErr |-> FALSE, StatusCode |-> 200, decodes |-> TRUE,
       access_token |-> "A2", token_type |-> "OAuth", error |-> ""] }

StatusCodes == {200, 201, 204, 299, 300, 404, 500}

StatusText(code) ==
    ToString(code) \o (CASE code = 200 -> " OK"
                         [] code = 201 -> " Created"
                         [] code = 204 -> " No Content"
                         [] code = 300 -> " Multiple Choices"
                         [] code = 404 -> " Not Found"
                         [] code = 500 -> " Internal Server Error"
                         [] OTHER -> "")

Bodies ==
    { [json |-> "object", id |-> "001", success |-> TRUE, errs |-> <<>>],
      [json |-> "array", id |-> "", success |-> FALSE,
       errs |-> <<[message |-> "not found", errorCode |-> "NOT_FOUND"]>>],
      [json |-> "null", id |-> "", success |-> FALSE, errs |-> <<>>],
      [json |-> "garbage", id |-> "", success |-> FALSE, errs |-> <<>>] }

TargetResponses ==
    { [isNil |-> FALSE, StatusCode |-> c, Status |-> StatusText(c), Body |-> b] :
        c \in StatusCodes, b \in Bodies }

Operator(variant, sobjectName, sobjectID, sobject, selectFileds) ==
    [variant |-> variant, sobjectName |-> sobjectName, sobjectID |-> sobjectID,
     sobject |-> sobject, result |-> NilResult, target |-> "nil",
     selectFileds |-> selectFileds, whereClauses |-> <<>>, order |-> <<>>,
     nullPriority |-> <<>>, limit |-> 0]

NoOp == Operator("none", "", "", "nil", <<>>)

(* The operators the public functions of api.go hand to Client.do *)
DoOps ==
    { Operator("create", n, "", b, <<>>) : n \in {"", "Account"}, b \in {"nil", "obj", "chan"} }
    \cup { Operator("update", n, "001", "obj", <<>>) : n \in {"", "Account"} }
    \cup { Operator("delete", n, "001", "nil", <<>>) : n \in {"", "Account"} }
    \cup { Operator("get", n, "001", "nil", <<>>) : n \in {"", "Account"} }
    \cup { Operator("query", n, "", "nil", <<"Id">>) : n \in {"", "Account"} }

-----------------------------------------------------------------------------
(* OpQuery builder methods.  Each returns the operator it was called on.   *)

NewOpQuery(sobjectName) == Operator("query", sobjectName, "", "nil", <<>>)

(* Select replacing the fields selected so far *)
Select_replace(op, fields) == [op EXCEPT !.selectFileds = fields]

Select(op, fields) == [op EXCEPT !.selectFileds = @ \o fields]

From(op, sobjectName) == [op EXCEPT !.sobjectName = sobjectName]

(* OrderDesc that keeps an order set before *)
OrderDesc_keepsEarlier(op, field) ==
    IF op.order # <<>> THEN op
    ELSE [op EXCEPT !.order = StrTok(field) \o <<" ", "DESC">>]

OrderDesc(op, field) == [op EXCEPT !.order = StrTok(field) \o <<" ", "DESC">>]

OrderAsc(op, field) == [op EXCEPT !.order = StrTok(field) \o <<" ", "ASC">>]

(* OrderReset that leaves the order in place *)
OrderReset_keepsOrder(op) == op

(* OrderReset that clears the null priority together with the order *)
OrderReset_clearsNullPriority(op) == [op EXCEPT !.order = <<>>, !.nullPriority = <<>>]

OrderReset(op) == [op EXCEPT !.order = <<>>]

OrderNullFirst(op) == [op EXCEPT !.nullPriority = <<"NULL", " ", "FIRST">>]

OrderNullLast(op) == [op EXCEPT !.nullPriority = <<"NULL", " ", "LAST">>]

(* Limit that ignores a value that is not positive *)
Limit_positiveOnly(op, n) == IF n > 0 THEN [op EXCEPT !.limit = n] ELSE op

Limit(op, n) == [op EXCEPT !.limit = n]

(* Arguments the builder methods are called with *)
SelectArgs == {<<>>, <<"Id">>, <<"Id", "Name">>}

FromArgs == {"", "User"}

NewOpQueryArgs == {"", "Account"}

OrderFields == {"Id", "Name"}

LimitArgs == {-1, 0, 2, 5}

IntCond(text) == [type |-> "int", text |-> text]

(* a condition that is neither a number, a boolean nor a string *)
SliceCond == [type |-> "slice", text |-> "[1]"]

(* The whereClauses an OpQuery may hold (no builder method sets them) *)
WhereStates ==
    { <<>>,
      <<[field |-> "a", condition |-> IntCond("1")]>>,
      <<[field |-> "a", condition |-> SliceCond]>>,
      <<[field |-> "a", condition |-> IntCond("1")], [field |-> "b", condition |-> SliceCond]>>,
      <<[field |-> "a", condition |-> SliceCond], [field |-> "b", condition |-> SliceCond]>>,
      <<[field |-> "a", condition |-> IntCond("1")],
        [field |-> "b", condition |-> [type |-> "string", text |-> "x"]]>>,
      <<[field |-> "a", condition |-> IntCond("1")], [field |-> "a", condition |-> IntCond("2")]>>,
      <<[field |-> "a", condition |-> IntCond("1")], [field |-> "a", condition |-> SliceCond]>>,
      <<[field |-> "a", condition |-> SliceCond], [field |-> "a", condition |-> SliceCond]>>,
      <<[field |-> "a", condition |-> IntCond("1")],
        [field |-> "b", condition |-> [type |-> "string", text |-> "x"]],
        [field |-> "a", condition |-> IntCond("2")]>> }

-----------------------------------------------------------------------------
(* State *)

BuilderCtx == [addr |-> 9, host |-> Host, version |-> maxAPIVersion]

(* The OpQuery under configuration, what its last Make returned, and what  *)
(* the builder methods were called with so far.                            *)
NoBuilder ==
    [phase |-> "none", op |-> NoOp, n |-> 0,
     req |-> NilRequest, err |-> NoErr, assembled |-> FALSE, stmt |-> <<>>,
     selectCalled |-> FALSE, selArgs |-> <<>>, fromArg |-> "", where0 |-> <<>>,
     limitCalled |-> FALSE, lastLimit |-> 0, prevLimit |-> 0,
     orderCalled |-> FALSE, orderField |-> "", orderDir |-> "", prevOrderField |-> "",
     resets |-> 0, resetLast |-> FALSE,
     lastNull |-> "none", resetAfterNull |-> FALSE, nullAfterOrder |-> FALSE]

Callers == {1, 2}

SeqCallers == {1}

(* The instants at which the clock is sampled: around 0 and around the    *)
(* default lifetime.                                                      *)
TimePoints == {t \in 0..MaxTime : t <= 2 \/ t >= DefaultExpiresIn}

NilCtx == [addr |-> 0, host |-> "", version |-> 0]

NoClient == [constructed |-> FALSE, requestCtx |-> NilCtx]

NoRet == [returned |-> FALSE, id |-> "", err |-> NoErr, panic |-> FALSE]

IdleCall ==
    [pc |-> "idle", op |-> NoOp, ctx |-> NilCtx, makes |-> 0, req |-> NilRequest,
     checked |-> FALSE, chkTok |-> NilToken, chkNow |-> 0, exchanges |-> 0,
     exchAt |-> 0, exchOutcome |-> NoOutcome, tokenType |-> "", tokenTypeOf |-> 0, accessTokenOf |-> 0,
     sent |-> <<>>, resp |-> NilResponse, handled |-> 0, parsed |-> 0,
     err |-> NoErr, ret |-> NoRet]

NoProbe ==
    [phase |-> "none", op |-> NoOp, ctx |-> NilCtx, req |-> NilRequest,
     resp |-> NilResponse, err |-> NoErr, after |-> NoOp]

Init ==
    /\ config \in Configs
    /\ client = NoClient
    /\ o_token = NilToken
    /\ now = 0
    /\ calls = [c \in Callers |-> IdleCall]
    /\ nExchanges = 0
    /\ nCalls = 0
    /\ probe = NoProbe
    /\ builder = NoBuilder
    /\ config0 = config

-----------------------------------------------------------------------------
(* NewClient: normalises config.ExpiresIn in the caller's Config (the       *)
(* oAuth keeps the pointer) and clamps the version of the requestCtx.      *)

(* NewClient that also writes the clamped version back into the Config *)
NewClient_writesVersionBack ==
    /\ ~client.constructed
    /\ LET cfg == IF config.ExpiresIn <= 0
                  THEN [config EXCEPT !.ExpiresIn = DefaultExpiresIn]
                  ELSE config
           requestCtx == [addr |-> 1, host |-> config.Host, version |-> config.APIVersion]
           ctx == IF ~isVersionValid(requestCtx)
                  THEN [requestCtx EXCEPT !.version = maxAPIVersion]
                  ELSE requestCtx
       IN  /\ config' = [cfg EXCEPT !.APIVersion = ctx.version]
           /\ client' = [constructed |-> TRUE, requestCtx |-> ctx]
    /\ UNCHANGED <<o_token, now, calls, nExchanges, nCalls, probe, builder, config0>>

(* NewClient that takes a lifetime of zero for valid *)
NewClient_zeroLifetimeKept ==
    /\ ~client.constructed
    /\ LET cfg == IF config.ExpiresIn < 0
                  THEN [config EXCEPT !.ExpiresIn = DefaultExpiresIn]
                  ELSE config
           requestCtx == [addr |-> 1, host |-> config.Host, version |-> config.APIVersion]
       IN  /\ config' = cfg
           /\ client' = [constructed |-> TRUE,
                         requestCtx |-> IF ~isVersionValid(requestCtx)
                                        THEN [requestCtx EXCEPT !.version = maxAPIVersion]
                                        ELSE requestCtx]
    /\ UNCHANGED <<o_token, now, calls, nExchanges, nCalls, probe, builder, config0>>

NewClient ==
    /\ ~client.constructed
    /\ LET cfg == IF config.ExpiresIn <= 0
                  THEN [config EXCEPT !.ExpiresIn = DefaultExpiresIn]
                  ELSE config
           requestCtx == [addr |-> 1, host |-> config.Host, version |-> config.APIVersion]
       IN  /\ config' = cfg
           /\ client' = [constructed |-> TRUE,
                         requestCtx |-> IF ~isVersionValid(requestCtx)
                                        THEN [requestCtx EXCEPT !.version = maxAPIVersion]
                                        ELSE requestCtx]
    /\ UNCHANGED <<o_token, now, calls, nExchanges, nCalls, probe, builder, config0>>

-----------------------------------------------------------------------------
(* The public functions of api.go around Client.do *)

(* What the public function returns once do has returned err. *)
apiReturn(op, err) ==
    IF op.variant = "create"
    THEN IF err.kind # "nil"
         THEN [returned |-> TRUE, id |-> "", err |-> err, panic |-> FALSE]
         ELSE IF op.result.isNil
         THEN [returned |-> FALSE, id |-> "", err |-> NoErr, panic |-> TRUE]
         ELSE [returned |-> TRUE, id |-> op.result.ID, err |-> NoErr, panic |-> FALSE]
    ELSE [returned |-> TRUE, id |-> "", err |-> err, panic |-> FALSE]

(* do returns: the call is over *)
Finish(call, op, err) ==
    [call EXCEPT !.pc = "done", !.op = op, !.err = err, !.ret = apiReturn(op, err)]

(* Client.do up to the point where the transport is entered: Make with a   *)
(* fresh RequestCtx, then makeRequest.                                     *)
DoStart(c, op, ord) ==
    /\ client.constructed
    /\ calls[c].pc = "idle"
    /\ nCalls < MaxCalls
    /\ nCalls' = nCalls + 1
    /\ LET ctx == [addr |-> nCalls + 2,
                   host |-> client.requestCtx.host,
                   version |-> client.requestCtx.version]
           m == Make(op, ctx, ord)
           call == [IdleCall EXCEPT !.op = op, !.ctx = ctx, !.makes = @ + 1, !.req = m.req]
       IN  IF m.err.kind # "nil"
           THEN calls' = [calls EXCEPT ![c] = Finish(call, op, m.err)]
           ELSE LET h == makeRequest(m.req)
                IN  IF h.err.kind # "nil"
                    THEN calls' = [calls EXCEPT ![c] = Finish(call, op, h.err)]
                    ELSE calls' = [calls EXCEPT ![c] = [call EXCEPT !.pc = "rt"]]
    /\ UNCHANGED <<config, client, o_token, now, nExchanges, probe, builder, config0>>

(* oAuth.RoundTrip, the condition o.token == nil || o.token.IsExpired() *)
RoundTripCheck(c) ==
    /\ calls[c].pc = "rt"
    /\ calls' = [calls EXCEPT ![c] =
                   [@ EXCEPT !.checked = TRUE, !.chkTok = o_token, !.chkNow = now,
                             !.pc = IF o_token.isNil \/ IsExpired(o_token, now)
                                    THEN "exch" ELSE "hdr"]]
    /\ UNCHANGED <<config, client, o_token, now, nExchanges, nCalls, probe, builder, config0>>

(* oAuth.RoundTrip exchanging a second time when the first exchange failed *)
RoundTripExchange_retriesOnce(c, outcome) ==
    /\ calls[c].pc = "exch"
    /\ LET x == exchangeToken(config, outcome, now, nExchanges + 1)
       IN  /\ o_token' = x.t
           /\ nExchanges' = nExchanges + 1
           /\ LET call == [calls[c] EXCEPT !.exchanges = @ + 1, !.exchAt = now,
                                           !.exchOutcome = outcome]
              IN  IF x.err.kind # "nil"
                  THEN IF call.exchanges < 2
                       THEN calls' = [calls EXCEPT ![c] = call]
                       ELSE calls' = [calls EXCEPT ![c] = Finish(call, call.op, x.err)]
                  ELSE calls' = [calls EXCEPT ![c] = [call EXCEPT !.pc = "hdr"]]
    /\ UNCHANGED <<config, client, now, nCalls, probe, builder, config0>>

(* oAuth.RoundTrip: o.token, err = o.exchangeToken() *)
RoundTripExchange(c, outcome) ==
    /\ calls[c].pc = "exch"
    /\ LET x == exchangeToken(config, outcome, now, nExchanges + 1)
       IN  /\ o_token' = x.t
           /\ nExchanges' = nExchanges + 1
           /\ LET call == [calls[c] EXCEPT !.exchanges = @ + 1, !.exchAt = now,
                                           !.exchOutcome = outcome]
              IN  IF x.err.kind # "nil"
                  THEN calls' = [calls EXCEPT ![c] = Finish(call, call.op, x.err)]
                  ELSE calls' = [calls EXCEPT ![c] = [call EXCEPT !.pc = "hdr"]]
    /\ UNCHANGED <<config, client, now, nCalls, probe, builder, config0>>

(* oAuth.RoundTrip: the read of o.TokenType through the embedded pointer *)
RoundTripTokenType(c) ==
    /\ calls[c].pc = "hdr"
    /\ calls' = [calls EXCEPT ![c] =
                   IF o_token.isNil
                   THEN [@ EXCEPT !.pc = "panic"]
                   ELSE [@ EXCEPT !.pc = "hdr2", !.tokenType = o_token.TokenType,
                                  !.tokenTypeOf = o_token.id]]
    /\ UNCHANGED <<config, client, o_token, now, nExchanges, nCalls, probe, builder, config0>>

(* doWithHTTPRequest that hands every response to the operator's Handle *)
doWithHTTPRequest_handlesAll(op, resp) ==
    LET h == Handle(op, resp)
    IN  [handled |-> 1, parsed |-> 0, err |-> h.err, op |-> h.op]

(* doWithHTTPRequest that takes only 200 for a success *)
doWithHTTPRequest_only200(op, resp) ==
    IF resp.StatusCode = 200
    THEN LET h == Handle(op, resp)
         IN  [handled |-> 1, parsed |-> 0, err |-> h.err, op |-> h.op]
    ELSE [handled |-> 0, parsed |-> 1, err |-> parseErrResponse(resp), op |-> op]

(* Client.doWithHTTPRequest once the response is in: a status of class 2xx *)
(* goes to the operator's Handle, any other to parseErrResponse.           *)
doWithHTTPRequest(op, resp) ==
    IF resp.StatusCode \div 100 = 2
    THEN LET h == Handle(op, resp)
         IN  [handled |-> 1, parsed |-> 0, err |-> h.err, op |-> h.op]
    ELSE [handled |-> 0, parsed |-> 1, err |-> parseErrResponse(resp), op |-> op]

(* oAuth.RoundTrip: the read of o.AccessToken, req.Header.Add and the      *)
(* default transport's RoundTrip; then doWithHTTPRequest's routing of the  *)
(* response.  resp is the target's answer, a nil response a transport      *)
(* failure.                                                                *)
RoundTripSend(c, resp) ==
    /\ calls[c].pc = "hdr2"
    /\ calls' = [calls EXCEPT ![c] =
         IF o_token.isNil
         THEN [@ EXCEPT !.pc = "panic"]
         ELSE LET httpReq == [method |-> @.req.method, url |-> @.req.url,
                              data |-> @.req.data,
                              ContentType |-> "application/json",
                              Authorization |-> @.tokenType \o " " \o o_token.AccessToken]
                  call == [@ EXCEPT !.sent = Append(@, httpReq),
                                    !.accessTokenOf = o_token.id,
                                    !.resp = resp]
              IN  IF resp.isNil
                  THEN Finish(call, call.op, ErrorsNew("Transport", "RoundTrip failed"))
                  ELSE LET d == doWithHTTPRequest(call.op, resp)
                       IN  Finish([call EXCEPT !.handled = @ + d.handled,
                                               !.parsed = @ + d.parsed],
                                  d.op, d.err)]
    /\ UNCHANGED <<config, client, o_token, now, nExchanges, nCalls, probe, builder, config0>>

(* The public function has returned to its caller. *)
Return(c) ==
    /\ calls[c].pc = "done"
    /\ calls' = [calls EXCEPT ![c] = IdleCall]
    /\ UNCHANGED <<config, client, o_token, now, nExchanges, nCalls, probe, builder, config0>>

(* Wall-clock time passes. *)
Tick ==
    /\ \E t \in TimePoints : t > now /\ now' = t
    /\ UNCHANGED <<config, client, o_token, calls, nExchanges, nCalls, probe, builder, config0>>

Next ==
    \/ NewClient
    \/ \E op \in DoOps : \E ord \in QueryOrders(op) : DoStart(1, op, ord)
    \/ RoundTripCheck(1)
    \/ \E outcome \in TokenOutcomes : RoundTripExchange(1, outcome)
    \/ RoundTripTokenType(1)
    \/ \E resp \in TargetResponses \cup {NilResponse} : RoundTripSend(1, resp)
    \/ Return(1)
    \/ Tick

Spec == Init /\ [][Next]_vars

TypeOK ==
    /\ config \in [Host : {Host}, ClientID : {"cid"}, ClientSecret : {"sec"},
                   Username : {"u"}, Password : {"pw"}, ExpiresIn : Int, APIVersion : Int]
    /\ now \in TimePoints
    /\ nCalls \in 0..MaxCalls
    /\ nExchanges \in 0..MaxCalls
    /\ \A c \in Callers :
          calls[c].pc \in {"idle", "rt", "exch", "hdr", "hdr2", "done", "panic"}

-----------------------------------------------------------------------------
(* Make and Handle invoked directly on an operator (as a test or a caller   *)
(* holding an Operator does), outside Client.do.                           *)

ProbeCtxs == { [addr |-> 9, host |-> Host, version |-> v] : v \in {8, 37} }

WhereInputs ==
    { <<>>,
      <<[field |-> "a", condition |-> [type |-> "int", text |-> "1"]]>>,
      <<[field |-> "a", condition |-> [type |-> "int", text |-> "1"]],
        [field |-> "b", condition |-> [type |-> "string", text |-> "x"]]>> }

ProbeOps ==
    { [Operator(v, n, i, b, <<>>) EXCEPT !.result = r] :
         v \in {"create", "update", "delete"}, n \in {"", "Account"}, i \in {"", "001"},
         b \in {"nil", "obj"},
         r \in {NilResult, [isNil |-> FALSE, ID |-> "old", Success |-> TRUE]} }
    \cup { [Operator("get", n, i, "nil", <<>>) EXCEPT !.target = t] :
         n \in {"", "Account"}, i \in {"", "001"}, t \in {"nil", "old"} }
    \cup { [Operator("query", n, "", "nil", f) EXCEPT
                !.target = t, !.whereClauses = w, !.order = o, !.limit = l] :
         n \in {"", "Account"}, f \in {<<>>, <<"Id">>, <<"Id", "Name">>},
         t \in {"nil", "old"}, w \in WhereInputs,
         o \in {<<>>, <<"Name", " ", "DESC">>}, l \in {0, 5} }

ProbeMake(op, ctx, ord) ==
    /\ probe.phase = "none"
    /\ LET m == Make(op, ctx, ord)
       IN  probe' = [NoProbe EXCEPT !.phase = "make", !.op = op, !.ctx = ctx,
                                    !.req = m.req, !.err = m.err, !.after = op]
    /\ UNCHANGED <<config, client, o_token, now, calls, nExchanges, nCalls, builder, config0>>

ProbeHandle(op, resp) ==
    /\ probe.phase = "none"
    /\ LET h == Handle(op, resp)
       IN  probe' = [NoProbe EXCEPT !.phase = "handle", !.op = op, !.resp = resp,
                                    !.err = h.err, !.after = h.op]
    /\ UNCHANGED <<config, client, o_token, now, calls, nExchanges, nCalls, builder, config0>>

ProbeNext ==
    \/ /\ probe.phase = "none"
       /\ \E op \in ProbeOps : \E ctx \in ProbeCtxs : \E ord \in QueryOrders(op) :
             ProbeMake(op, ctx, ord)
    \/ /\ probe.phase = "none"
       /\ \E op \in ProbeOps : \E resp \in TargetResponses : ProbeHandle(op, resp)

ProbeSpec == Init /\ [][ProbeNext]_vars

-----------------------------------------------------------------------------
(* Properties of the authenticating transport and of Client.do (Spec)      *)

(* What the token endpoint did counts as a failed exchange *)
ExchangeFailed(outcome) ==
    outcome.transportErr \/ outcome.StatusCode # 200 \/ ~outcome.decodes

(* The call found no token, or a token whose deadline had passed, when it  *)
(* evaluated the condition of RoundTrip.                                   *)
NeededToken(call) ==
    call.checked /\ (call.chkTok.isNil \/ call.chkNow > call.chkTok.ExpiresAt)

HeldValidToken(call) ==
    call.checked /\ ~call.chkTok.isNil /\ call.chkNow <= call.chkTok.ExpiresAt

(* C1: a call whose token exchange failed (transport error, non-200 answer *)
(* of the token endpoint, or undecodable token body) is over, returns the  *)
(* authentication error, and has sent no request to the target.            *)
C1_FailedExchangeAborts ==
    \A c \in SeqCallers :
        (calls[c].exchanges > 0 /\ ExchangeFailed(calls[c].exchOutcome)) =>
            /\ calls[c].pc = "done"
            /\ IsAuthErr(calls[c].err)
            /\ calls[c].ret.err = calls[c].err
            /\ calls[c].sent = <<>>
            /\ calls[c].handled = 0 /\ calls[c].parsed = 0

C1_Witness ==
    /\ calls[1].pc = "done"
    /\ calls[1].exchanges = 1
    /\ calls[1].exchOutcome.StatusCode = 200
    /\ ~calls[1].exchOutcome.decodes
    /\ calls[1].err.kind = "TokenDecode"

(* C2: a call that finds no token, or finds the clock strictly after the   *)
(* held token's ExpiresAt, performs one token exchange before anything is  *)
(* sent to the target (it cannot be past the exchange without it), and     *)
(* after a successful exchange the held token's ExpiresAt is the time of   *)
(* the exchange plus the lifetime of the Config.                           *)
C2_ExchangeWhenAbsentOrExpired ==
    \A c \in SeqCallers :
        /\ (NeededToken(calls[c]) /\ calls[c].pc # "exch") =>
              /\ calls[c].exchanges = 1
              /\ calls[c].sent # <<>> => ~ExchangeFailed(calls[c].exchOutcome)
        /\ (calls[c].exchanges = 0) => (calls[c].sent = <<>> \/ HeldValidToken(calls[c]))
        /\ (calls[c].exchanges > 0 /\ ~ExchangeFailed(calls[c].exchOutcome)) =>
              /\ ~o_token.isNil
              /\ o_token.ExpiresAt = calls[c].exchAt + config.ExpiresIn
              /\ config.ExpiresIn > 0

(* a second call re-exchanges because the token of the first has expired *)
C2_Witness ==
    /\ calls[1].pc = "done"
    /\ calls[1].sent # <<>>
    /\ ~calls[1].chkTok.isNil
    /\ calls[1].chkNow > calls[1].chkTok.ExpiresAt
    /\ calls[1].exchanges = 1
    /\ o_token.ExpiresAt = calls[1].exchAt + 1
    /\ nCalls = 2

(* C3: a call that finds a token whose ExpiresAt is not before the clock   *)
(* (equality included) performs no exchange, leaves the held token as it   *)
(* is, and the request it forwards carries the Authorization header        *)
(* "<TokenType> <AccessToken>" of that token.                              *)
C3_ValidTokenReused ==
    \A c \in SeqCallers :
        HeldValidToken(calls[c]) =>
            /\ calls[c].pc # "exch"
            /\ calls[c].exchanges = 0
            /\ o_token = calls[c].chkTok
            /\ \A i \in 1..Len(calls[c].sent) :
                  calls[c].sent[i].Authorization =
                      calls[c].chkTok.TokenType \o " " \o calls[c].chkTok.AccessToken

(* the check happened exactly at the deadline *)
C3_Witness ==
    /\ calls[1].pc = "done"
    /\ calls[1].checked
    /\ ~calls[1].chkTok.isNil
    /\ calls[1].chkNow = calls[1].chkTok.ExpiresAt
    /\ Len(calls[1].sent) = 1
    /\ calls[1].sent[1].Authorization = "Bearer A1"

Is2xx(code) == code >= 200 /\ code <= 299

(* The target has answered the call *)
Answered(call) == call.pc = "done" /\ ~call.resp.isNil

(* C4 as stated: 2xx goes to Handle, whose error is the error of the call; *)
(* every other status fails with an errResponse carrying the status code,  *)
(* the status text and the decoded sub-errors, Handle not being invoked.   *)
C4_Original ==
    \A c \in SeqCallers :
        Answered(calls[c]) =>
            IF Is2xx(calls[c].resp.StatusCode)
            THEN /\ calls[c].handled = 1
                 /\ calls[c].err.kind # "errResponse"
                 /\ calls[c].err = Handle(calls[c].op, calls[c].resp).err
            ELSE /\ calls[c].handled = 0
                 /\ calls[c].err.kind = "errResponse"
                 /\ calls[c].err.statusCode = calls[c].resp.StatusCode
                 /\ calls[c].err.status = calls[c].resp.Status
                 /\ calls[c].err.errors = calls[c].resp.Body.errs

(* The body is JSON that decodes into a list of sub-errors *)
DecodesAsErrors(body) == body.json \in {"array", "null"}

(* C4 (amended): 2xx goes to Handle, whose error is the error of the call; *)
(* for every other status Handle is not invoked and the call fails: with   *)
(* an errResponse carrying the status code, the status text and the        *)
(* decoded sub-errors when the body decodes as a list of sub-errors, with  *)
(* the decode error otherwise.  No errResponse comes out of a 2xx status.  *)
C4_StatusClassRouting ==
    \A c \in SeqCallers :
        Answered(calls[c]) =>
            IF Is2xx(calls[c].resp.StatusCode)
            THEN /\ calls[c].handled = 1 /\ calls[c].parsed = 0
                 /\ calls[c].err.kind # "errResponse"
                 /\ calls[c].err = Handle(calls[c].op, calls[c].resp).err
            ELSE /\ calls[c].handled = 0 /\ calls[c].parsed = 1
                 /\ calls[c].err.kind # "nil"
                 /\ IF DecodesAsErrors(calls[c].resp.Body)
                    THEN /\ calls[c].err.kind = "errResponse"
                         /\ calls[c].err.statusCode = calls[c].resp.StatusCode
                         /\ calls[c].err.status = calls[c].resp.Status
                         /\ calls[c].err.errors = calls[c].resp.Body.errs
                    ELSE calls[c].err.kind = "Decode"

C4_Witness ==
    /\ Answered(calls[1])
    /\ calls[1].resp.StatusCode = 404
    /\ calls[1].resp.Body.json = "garbage"
    /\ calls[1].err.kind = "Decode"
    /\ calls[1].handled = 0

(* C5: whatever the variant, a call with an empty object name is over with *)
(* the error "missing Sobject name" and has dispatched nothing: it never   *)
(* entered the transport, exchanged no token, sent nothing to the target.  *)
C5_MissingNameNothingDispatched ==
    \A c \in SeqCallers :
        (calls[c].pc # "idle" /\ calls[c].op.sobjectName = "") =>
            /\ calls[c].pc = "done"
            /\ calls[c].err.kind = "MissingField"
            /\ calls[c].err.msg = "missing Sobject name"
            /\ calls[c].req.isNil
            /\ ~calls[c].checked
            /\ calls[c].exchanges = 0
            /\ calls[c].sent = <<>>

C5_Witness ==
    /\ calls[1].pc = "done"
    /\ calls[1].op.variant = "query"
    /\ calls[1].op.sobjectName = ""
    /\ calls[1].err.msg = "missing Sobject name"
    /\ nExchanges = 0

-----------------------------------------------------------------------------
(* Properties of Make and Handle (ProbeSpec)                               *)

(* The message naming the first missing field in the order object name,    *)
(* object id, payload (and, for a query, the select fields); "" if none.   *)
FirstMissing(op) ==
    IF op.sobjectName = "" THEN "missing Sobject name"
    ELSE IF op.variant \in {"update", "delete", "get"} /\ op.sobjectID = ""
    THEN "missing Sobject id"
    ELSE IF op.variant \in {"create", "update"} /\ op.sobject = "nil"
    THEN "missing Sobject"
    ELSE IF op.variant = "query" /\ op.selectFileds = <<>>
    THEN "missing select fields"
    ELSE ""

(* C6: Make reports the first missing field in the order object name,      *)
(* object id (Update/Delete/Get), payload (Create/Update); with nothing    *)
(* missing it returns a request and no error.                              *)
C6_FirstMissingField ==
    probe.phase = "make" =>
        IF FirstMissing(probe.op) = ""
        THEN probe.err = NoErr /\ ~probe.req.isNil
        ELSE /\ probe.err.kind = "MissingField"
             /\ probe.err.msg = FirstMissing(probe.op)
             /\ probe.req.isNil

(* an Update lacking both its id and its payload is told about the id *)
C6_Witness ==
    /\ probe.phase = "make"
    /\ probe.op.variant = "update"
    /\ probe.op.sobjectName # "" /\ probe.op.sobjectID = "" /\ probe.op.sobject = "nil"
    /\ probe.err.msg = "missing Sobject id"

ExpectedCode(variant) ==
    CASE variant = "create" -> 201
      [] variant = "delete" -> 204
      [] OTHER -> 200

(* C7: Handle passes the status check only for the expected code of the    *)
(* variant; for any other code it fails with the observed and the expected *)
(* code and leaves the operator (result, target) as it was.                *)
C7_UnexpectedStatus ==
    probe.phase = "handle" =>
        IF probe.resp.StatusCode = ExpectedCode(probe.op.variant)
        THEN probe.err.kind # "UnexpectedStatus"
        ELSE /\ probe.err.kind = "UnexpectedStatus"
             /\ probe.err.statusCode = probe.resp.StatusCode
             /\ probe.err.expect = ExpectedCode(probe.op.variant)
             /\ probe.after = probe.op

(* a 404 with a decodable body on a Get that already holds a target *)
C7_Witness ==
    /\ probe.phase = "handle"
    /\ probe.op.variant = "get"
    /\ probe.resp.StatusCode = 404
    /\ probe.resp.Body.json = "object"
    /\ probe.err.statusCode = 404 /\ probe.err.expect = 200
    /\ probe.after.target = "old"

(* <host>/services/data/v<version>.0 *)
VersionPrefix(ctx) == ctx.host \o "/services/data/v" \o ToString(ctx.version) \o ".0"

(* C8: a valid operator is made into a fixed method and URL: Create POST   *)
(* .../sobjects/<name>; Update PATCH .../sobjects/<name>/<id>; Delete      *)
(* DELETE and Get GET on the same URL, without a body; Query GET           *)
(* .../query?q=<statement>, the statement carried as a query-escaped       *)
(* parameter value.                                                        *)
C8_MethodAndURL ==
    (probe.phase = "make" /\ probe.err = NoErr) =>
        LET op == probe.op
            req == probe.req
            inst == VersionPrefix(probe.ctx) \o "/sobjects/" \o op.sobjectName
                        \o "/" \o op.sobjectID
        IN  CASE op.variant = "create" ->
                    /\ req.method = "POST"
                    /\ req.url = VersionPrefix(probe.ctx) \o "/sobjects/" \o op.sobjectName
                    /\ req.data = op.sobject
              [] op.variant = "update" ->
                    req.method = "PATCH" /\ req.url = inst /\ req.data = op.sobject
              [] op.variant = "delete" ->
                    req.method = "DELETE" /\ req.url = inst /\ req.data = "nil"
              [] op.variant = "get" ->
                    req.method = "GET" /\ req.url = inst /\ req.data = "nil"
              [] op.variant = "query" ->
                    /\ req.method = "GET" /\ req.data = "nil"
                    /\ \E ord \in QueryOrders(op) :
                          req.url = VersionPrefix(probe.ctx) \o "/query?q="
                                        \o QueryEscape(makeQueryStatment(op, ord))

C8_Witness ==
    /\ probe.phase = "make"
    /\ probe.op.variant = "query"
    /\ probe.op.selectFileds = <<"Id", "Name">>
    /\ probe.op.limit = 5
    /\ probe.req.method = "GET"
    /\ probe.req.url =
          "https://sf/services/data/v37.0/query?q=SELECT+Id%2CName+FROM+Account+++LIMIT+5"

-----------------------------------------------------------------------------
(* Properties of the public functions and of construction (Spec)           *)

(* C9: a Create with a name and a payload is made into a POST on           *)
(* .../sobjects/<name>; when the target answers 201 with an envelope       *)
(* holding id X, CreaetSobject returns X and no error; whenever it returns *)
(* an error the identifier it returns is empty.                            *)
C9_CreateRoundTrip ==
    \A c \in SeqCallers :
        (calls[c].pc = "done" /\ calls[c].op.variant = "create") =>
            /\ (calls[c].op.sobjectName # "" /\ calls[c].op.sobject # "nil") =>
                  /\ calls[c].req.method = "POST"
                  /\ calls[c].req.url =
                        VersionPrefix(calls[c].ctx) \o "/sobjects/" \o calls[c].op.sobjectName
            /\ (/\ calls[c].sent # <<>>
                /\ calls[c].resp.StatusCode = 201
                /\ calls[c].resp.Body.json = "object") =>
                  /\ calls[c].ret.returned
                  /\ calls[c].ret.err = NoErr
                  /\ calls[c].ret.id = calls[c].resp.Body.id
            /\ (calls[c].ret.returned /\ calls[c].ret.err # NoErr) => calls[c].ret.id = ""

C9_Witness ==
    /\ calls[1].pc = "done"
    /\ calls[1].op.variant = "create"
    /\ calls[1].req.url = "https://sf/services/data/v8.0/sobjects/Account"
    /\ calls[1].resp.StatusCode = 201
    /\ calls[1].ret.returned
    /\ calls[1].ret.id = "001"
    /\ calls[1].ret.err = NoErr

Clamp(v) == IF 8 <= v /\ v <= 37 THEN v ELSE 37

(* C10: once constructed, the client's version is the configured one if it *)
(* lies in 8..37 and 37 otherwise, its host the configured host; the       *)
(* context of every call is another object than the client's, with the     *)
(* same host and version; and no step changes the stored context.          *)
C10_VersionClamped ==
    /\ [](client.constructed =>
            /\ client.requestCtx.version = Clamp(config.APIVersion)
            /\ client.requestCtx.host = config.Host
            /\ \A c \in SeqCallers :
                  calls[c].pc # "idle" =>
                      /\ calls[c].ctx.addr # client.requestCtx.addr
                      /\ calls[c].ctx.host = client.requestCtx.host
                      /\ calls[c].ctx.version = client.requestCtx.version
                      /\ calls[c].ctx.version >= 8 /\ calls[c].ctx.version <= 37)
    /\ [][client.constructed => client' = client]_vars

C10_Witness ==
    /\ config.APIVersion = 38
    /\ client.requestCtx.version = 37
    /\ nCalls = 2
    /\ calls[1].pc = "done"
    /\ calls[1].ctx.version = 37
    /\ calls[1].sent # <<>>

-----------------------------------------------------------------------------
(* An OpQuery configured by a sequence of builder calls and then made      *)

(* A builder method is being called: the result of an earlier Make is gone *)
Called(b, op) ==
    [b EXCEPT !.phase = "built", !.op = op, !.n = @ + 1,
              !.req = NilRequest, !.err = NoErr, !.assembled = FALSE, !.stmt = <<>>]

CanCall == builder.phase \in {"built", "made"} /\ builder.n < MaxBuilderCalls

BuilderUnchanged ==
    UNCHANGED <<config, client, o_token, now, calls, nExchanges, nCalls, probe, config0>>

CallNewOpQuery(sobjectName, where) ==
    /\ builder.phase = "none"
    /\ builder' = [NoBuilder EXCEPT !.phase = "built",
                                    !.op = [NewOpQuery(sobjectName) EXCEPT
                                               !.whereClauses = where],
                                    !.fromArg = sobjectName, !.where0 = where]
    /\ BuilderUnchanged

CallSelect(fields) ==
    /\ CanCall
    /\ builder' = [Called(builder, Select(builder.op, fields)) EXCEPT
                      !.selectCalled = TRUE, !.selArgs = @ \o fields]
    /\ BuilderUnchanged

CallFrom(sobjectName) ==
    /\ CanCall
    /\ builder' = [Called(builder, From(builder.op, sobjectName)) EXCEPT
                      !.fromArg = sobjectName]
    /\ BuilderUnchanged

CallOrderDesc(field) ==
    /\ CanCall
    /\ builder' = [Called(builder, OrderDesc(builder.op, field)) EXCEPT
                      !.orderCalled = TRUE, !.orderField = field, !.orderDir = "DESC",
                      !.prevOrderField = builder.orderField,
                      !.resetLast = FALSE, !.nullAfterOrder = FALSE]
    /\ BuilderUnchanged

CallOrderAsc(field) ==
    /\ CanCall
    /\ builder' = [Called(builder, OrderAsc(builder.op, field)) EXCEPT
                      !.orderCalled = TRUE, !.orderField = field, !.orderDir = "ASC",
                      !.prevOrderField = builder.orderField,
                      !.resetLast = FALSE, !.nullAfterOrder = FALSE]
    /\ BuilderUnchanged

CallOrderReset ==
    /\ CanCall
    /\ builder' = [Called(builder, OrderReset(builder.op)) EXCEPT
                      !.resets = @ + 1, !.resetLast = TRUE,
                      !.resetAfterNull = (builder.lastNull # "none")]
    /\ BuilderUnchanged

CallOrderNullFirst ==
    /\ CanCall
    /\ builder' = [Called(builder, OrderNullFirst(builder.op)) EXCEPT
                      !.lastNull = "first", !.resetAfterNull = FALSE,
                      !.nullAfterOrder = TRUE]
    /\ BuilderUnchanged

CallOrderNullLast ==
    /\ CanCall
    /\ builder' = [Called(builder, OrderNullLast(builder.op)) EXCEPT
                      !.lastNull = "last", !.resetAfterNull = FALSE,
                      !.nullAfterOrder = TRUE]
    /\ BuilderUnchanged

CallLimit(n) ==
    /\ CanCall
    /\ builder' = [Called(builder, Limit(builder.op, n)) EXCEPT
                      !.limitCalled = TRUE, !.lastLimit = n,
                      !.prevLimit = builder.lastLimit]
    /\ BuilderUnchanged

(* OpQuery.Make on the configured operator; the statement is assembled     *)
(* only on the branch that builds the request.                             *)
CallMake(ord) ==
    /\ builder.phase = "built"
    /\ LET m == OpQuery_Make(builder.op, BuilderCtx, ord)
       IN  builder' = [builder EXCEPT
                          !.phase = "made", !.req = m.req, !.err = m.err,
                          !.assembled = (m.err.kind = "nil"),
                          !.stmt = IF m.err.kind = "nil"
                                   THEN makeQueryStatment(builder.op, ord)
                                   ELSE <<>>]
    /\ BuilderUnchanged

BuilderNext ==
    \/ \E name \in NewOpQueryArgs : \E where \in WhereStates : CallNewOpQuery(name, where)
    \/ \E fields \in SelectArgs : CallSelect(fields)
    \/ \E name \in FromArgs : CallFrom(name)
    \/ \E field \in OrderFields : CallOrderDesc(field)
    \/ \E field \in OrderFields : CallOrderAsc(field)
    \/ CallOrderReset
    \/ CallOrderNullFirst
    \/ CallOrderNullLast
    \/ \E n \in LimitArgs : CallLimit(n)
    \/ \E ord \in QueryOrders(builder.op) : CallMake(ord)

BuilderInit == Init /\ config = Config(1, 8)

BuilderSpec == BuilderInit /\ [][BuilderNext]_vars

-----------------------------------------------------------------------------
(* Properties of the query statement (BuilderSpec)                         *)

HasTok(s, t) == \E i \in 1..Len(s) : s[i] = t

(* sub occurs in s as a run of consecutive tokens *)
HasRun(s, sub) ==
    \E i \in 1..(Len(s) - Len(sub) + 1) : SubSeq(s, i, i + Len(sub) - 1) = sub

StartsWith(s, pre) == Len(s) >= Len(pre) /\ SubSeq(s, 1, Len(pre)) = pre

EndsWith(s, suf) ==
    Len(s) >= Len(suf) /\ SubSeq(s, Len(s) - Len(suf) + 1, Len(s)) = suf

(* C11: an assembled statement has no blank segment: no two consecutive    *)
(* separator spaces and no trailing space.                                 *)
C11_NoBlankSegments ==
    builder.assembled =>
        /\ builder.stmt[Len(builder.stmt)] # " "
        /\ ~HasRun(builder.stmt, <<" ", " ">>)

(* C12: with at least one field selected, the statement begins with        *)
(* SELECT, the comma-joined arguments of all select calls in call order,   *)
(* FROM, and the name given by the last from call (or the constructor).    *)
C12_SelectFromPrefix ==
    (builder.assembled /\ builder.selArgs # <<>>) =>
        StartsWith(builder.stmt,
                   <<"SELECT", " ">>
                       \o JoinTok([i \in 1..Len(builder.selArgs) |-> <<builder.selArgs[i]>>],
                                  <<",">>)
                       \o <<" ", "FROM", " ", builder.fromArg>>)

(* two select calls, a duplicate kept, the name of a later from call *)
C12_Witness ==
    /\ builder.assembled
    /\ builder.selArgs = <<"Id", "Id", "Name">>
    /\ builder.fromArg = "User"
    /\ builder.op.whereClauses = <<>>
    /\ builder.stmt = <<"SELECT", " ", "Id", ",", "Id", ",", "Name", " ", "FROM", " ",
                        "User", " ", " ", " ">>

NumberBoolString == {"int", "float64", "bool", "string"}

(* C13: a clause whose condition is no number, boolean or string is not    *)
(* rendered but stays stored, and the statement has a WHERE segment        *)
(* exactly when some stored clause has a valid condition.                  *)
C13_InvalidWhereDropped ==
    builder.assembled =>
        /\ builder.op.whereClauses = builder.where0
        /\ \A i \in 1..Len(builder.where0) :
              builder.where0[i].condition.type \notin NumberBoolString =>
                  ~HasRun(builder.stmt,
                          <<builder.where0[i].field, "=", builder.where0[i].condition.text>>)
        /\ HasTok(builder.stmt, "WHERE") <=>
              \E i \in 1..Len(builder.where0) :
                  builder.where0[i].condition.type \in NumberBoolString

C13_Witness ==
    /\ builder.assembled
    /\ Len(builder.where0) = 2
    /\ builder.where0[2].condition = SliceCond
    /\ HasRun(builder.stmt, <<" ", "WHERE", " ", "a", "=", "1", " ">>)
    /\ ~HasTok(builder.stmt, "b")

(* C14: the statement holds LIMIT <n> exactly when the last limit call had *)
(* n > 0, n being the argument of that call; a call with n <= 0 removes    *)
(* the clause, and limit(0) after limit(0) changes nothing.                *)
C14_LastLimitWins ==
    /\ builder.assembled =>
          IF builder.limitCalled /\ builder.lastLimit > 0
          THEN EndsWith(builder.stmt, <<" ", "LIMIT", " ", ToString(builder.lastLimit)>>)
          ELSE ~HasTok(builder.stmt, "LIMIT")
    /\ (builder.limitCalled /\ builder.lastLimit = 0) =>
          Limit(builder.op, 0) = builder.op

(* limit(5) and then limit(0) *)
C14_Witness ==
    /\ builder.assembled
    /\ builder.limitCalled
    /\ builder.prevLimit = 5
    /\ builder.lastLimit = 0
    /\ ~HasTok(builder.stmt, "LIMIT")

(* C15: when orderReset was called and no order was set since, the         *)
(* statement has no ORDER BY clause and no NULL FIRST / NULL LAST,         *)
(* whatever null priority was configured before or after the reset.        *)
C15_ResetRemovesOrderClause ==
    (builder.assembled /\ builder.resetLast) =>
        /\ ~HasTok(builder.stmt, "ORDER")
        /\ ~HasTok(builder.stmt, "NULL")

C15_Witness ==
    /\ builder.assembled
    /\ builder.orderCalled
    /\ builder.lastNull = "last"
    /\ builder.resetLast
    /\ ~HasTok(builder.stmt, "ORDER")

(* orderNullLast, later orderReset, later a new order, no null-priority    *)
(* call after the reset                                                    *)
NullLastThenResetThenOrder ==
    /\ builder.assembled
    /\ builder.lastNull = "last"
    /\ builder.resetAfterNull
    /\ builder.orderCalled
    /\ ~builder.resetLast

(* C16 as stated: the order set after the reset is rendered with the       *)
(* default NULL FIRST.                                                     *)
C16_Original ==
    NullLastThenResetThenOrder =>
        EndsWith(makeOrderStatment(builder.op), <<" ", "NULL", " ", "FIRST">>)
            /\ HasRun(builder.stmt, <<" ", "NULL", " ", "FIRST">>)

(* C16 (amended): orderReset clears the order only.  Whenever an order is  *)
(* set, its clause carries the null priority of the last null-priority     *)
(* call, a reset in between or not, and NULL FIRST if there was no such    *)
(* call.                                                                   *)
C16_NullPrioritySurvivesReset ==
    (builder.assembled /\ builder.orderCalled /\ ~builder.resetLast) =>
        HasRun(builder.stmt,
               <<"ORDER", " ", "BY", " ", builder.orderField, " ", builder.orderDir, " ",
                 "NULL", " ", IF builder.lastNull = "last" THEN "LAST" ELSE "FIRST">>)

C16_Witness ==
    /\ NullLastThenResetThenOrder
    /\ HasRun(builder.stmt, <<"ORDER", " ", "BY", " ", "Name", " ", "ASC", " ",
                              "NULL", " ", "LAST">>)

(* C17: the builder methods return no error; Make fails, with a            *)
(* MissingField error, exactly when the object name or the select fields   *)
(* are empty, and then assembles no statement and returns no request.      *)
C17_ValidityGateAtMake ==
    /\ builder.phase = "built" => builder.err = NoErr
    /\ builder.phase = "made" =>
          /\ builder.err.kind \in {"nil", "MissingField"}
          /\ builder.err.kind = "MissingField" <=>
                (builder.fromArg = "" \/ builder.selArgs = <<>>)
          /\ builder.err.kind = "MissingField" =>
                builder.req.isNil /\ ~builder.assembled /\ builder.stmt = <<>>
          /\ builder.err.kind = "nil" =>
                ~builder.req.isNil /\ builder.assembled /\ builder.stmt # <<>>

(* select() with no field, on an operator with a name *)
C17_Witness ==
    /\ builder.phase = "made"
    /\ builder.selectCalled
    /\ builder.selArgs = <<>>
    /\ builder.fromArg = "Account"
    /\ builder.limitCalled
    /\ builder.err.msg = "missing select fields"
    /\ builder.req.isNil

-----------------------------------------------------------------------------
(* Two goroutines calling Do through one client (ConcSpec).  The steps of  *)
(* oAuth.RoundTrip of the two calls interleave freely; o.token is shared   *)
(* and unguarded.  Token endpoint outcomes are a transport failure or a    *)
(* well-formed token, so that every call run alone succeeds or returns its *)
(* own exchange error.                                                     *)

ConcOps == {Operator("get", "Account", "001", "nil", <<>>)}

ConcOutcomes ==
    {o \in TokenOutcomes : o.transportErr \/ (o.StatusCode = 200 /\ o.decodes)}

ConcResponses ==
    {r \in TargetResponses : r.StatusCode = 200 /\ r.Body.json = "object"}

ConcInit == Init /\ config = Config(1, 8)

ConcNext ==
    \/ NewClient
    \/ \E c \in Callers : \E op \in ConcOps : DoStart(c, op, <<>>)
    \/ \E c \in Callers : RoundTripCheck(c)
    \/ \E c \in Callers : \E outcome \in ConcOutcomes : RoundTripExchange(c, outcome)
    \/ \E c \in Callers : RoundTripTokenType(c)
    \/ \E c \in Callers : \E resp \in ConcResponses : RoundTripSend(c, resp)
    \/ \E c \in Callers : Return(c)
    \/ Tick

ConcSpec == ConcInit /\ [][ConcNext]_vars

(* The Authorization values built from one successfully exchanged token *)
WholeTokenHeaders ==
    {o.token_type \o " " \o o.access_token :
        o \in {x \in TokenOutcomes : ~x.transportErr /\ x.StatusCode = 200 /\ x.decodes}}

(* C18: under every interleaving of two Do calls no call reads a field of  *)
(* the shared token while it is absent, and every request forwarded        *)
(* carries the token type and the access token of one and the same         *)
(* successfully exchanged token.                                           *)
C18_RaceBenign ==
    \A c \in Callers :
        /\ calls[c].pc # "panic"
        /\ \A i \in 1..Len(calls[c].sent) :
              /\ calls[c].sent[i].Authorization \in WholeTokenHeaders
              /\ calls[c].tokenTypeOf = calls[c].accessTokenOf

-----------------------------------------------------------------------------
(* The caller's Config and the token lifetime (Spec).  config0 is the      *)
(* Config as the caller filled it in before NewClient.                     *)

(* C19 as stated: every field of the Config keeps the value it had before  *)
(* construction.                                                           *)
C19_Original == config = config0

(* C19 (amended): construction changes no field of the Config but the      *)
(* token lifetime, which becomes 3600 when it was configured <= 0; no call *)
(* changes the Config after that.                                          *)
C19_OnlyLifetimeNormalised ==
    IF client.constructed
    THEN config = [config0 EXCEPT !.ExpiresIn = IF @ <= 0 THEN 3600 ELSE @]
    ELSE config = config0

(* an invalid version and a negative lifetime, after two calls *)
C19_Witness ==
    /\ client.constructed
    /\ nCalls = 2
    /\ nExchanges > 0
    /\ config0.ExpiresIn = -1
    /\ config.ExpiresIn = 3600
    /\ config0.APIVersion = 37
    /\ config.APIVersion = 37

EffectiveLifetime(cfg) == IF cfg.ExpiresIn > 0 THEN cfg.ExpiresIn ELSE 3600

(* C20: a token read from a 200 answer of the token endpoint expires the   *)
(* configured lifetime after the exchange if that lifetime is > 0 and 3600 *)
(* seconds after it otherwise; the lifetime the exchanges use does not     *)
(* change once the client is constructed.                                  *)
C20_TokenLifetime ==
    /\ [](\A c \in SeqCallers :
            (calls[c].exchanges > 0 /\ ~calls[c].exchOutcome.transportErr
                /\ calls[c].exchOutcome.StatusCode = 200) =>
                (~o_token.isNil
                    /\ o_token.ExpiresAt = calls[c].exchAt + EffectiveLifetime(config0)))
    /\ [][client.constructed => config'.ExpiresIn = config.ExpiresIn]_vars

(* a lifetime configured as zero, the second exchange of the client *)
C20_Witness ==
    /\ config0.ExpiresIn = 0
    /\ nExchanges = 2
    /\ calls[1].exchanges = 1
    /\ calls[1].exchAt = 2
    /\ calls[1].exchOutcome.decodes
    /\ ~o_token.isNil
    /\ o_token.ExpiresAt = 3602

-----------------------------------------------------------------------------
(* More properties of the query statement (BuilderSpec)                    *)

(* The number of terms <f>=... in statement s *)
Terms(s, f) ==
    Cardinality({j \in 1..(Len(s) - 1) : s[j] = f /\ s[j + 1] = "="})

(* The indexes of the stored clauses with field f *)
ClausesOf(f) == {i \in 1..Len(builder.where0) : builder.where0[i].field = f}

ValidClausesOf(f) ==
    {i \in ClausesOf(f) : builder.where0[i].condition.type \in NumberBoolString}

Last(S) == CHOOSE i \in S : \A j \in S : j <= i

(* C21 as stated: a field stored in several clauses is rendered as exactly *)
(* one term, with the condition of the last of these clauses.              *)
C21_Original ==
    builder.assembled =>
        \A f \in {"a", "b"} :
            Cardinality(ClausesOf(f)) >= 2 =>
                /\ Terms(builder.stmt, f) = 1
                /\ HasRun(builder.stmt,
                          <<f, "=", builder.where0[Last(ClausesOf(f))].condition.text>>)

(* C21 (amended): a field is rendered as exactly one term, with the        *)
(* condition of the last valid clause of that field, when it has a valid   *)
(* clause, and as no term when it has none; invalid clauses do not count.  *)
C21_LastValidClauseWins ==
    builder.assembled =>
        \A f \in {"a", "b"} :
            IF ValidClausesOf(f) = {}
            THEN Terms(builder.stmt, f) = 0
            ELSE /\ Terms(builder.stmt, f) = 1
                 /\ HasRun(builder.stmt,
                           <<f, "=", builder.where0[Last(ValidClausesOf(f))].condition.text>>)

(* a=1, b=x, a=2: one term for a, with 2 *)
C21_Witness ==
    /\ builder.assembled
    /\ Len(builder.where0) = 3
    /\ Cardinality(ValidClausesOf("a")) = 2
    /\ Terms(builder.stmt, "a") = 1
    /\ HasRun(builder.stmt, <<"a", "=", "2">>)
    /\ HasRun(builder.stmt, <<"b", "=", "x">>)

(* C22: with an order set and no orderReset after it, the statement has    *)
(* exactly one ORDER BY clause, of the field and direction of the last     *)
(* order call and the null priority of the last null-priority call (NULL   *)
(* FIRST if there was none); without an order set, null-priority calls or  *)
(* not, it has no ORDER BY clause.                                         *)
C22_LastOrderCallWins ==
    builder.assembled =>
        IF builder.orderCalled /\ ~builder.resetLast
        THEN /\ Cardinality({j \in 1..Len(builder.stmt) : builder.stmt[j] = "ORDER"}) = 1
             /\ Cardinality({j \in 1..Len(builder.stmt) :
                               builder.stmt[j] \in {"ASC", "DESC"}}) = 1
             /\ Cardinality({j \in 1..Len(builder.stmt) : builder.stmt[j] = "NULL"}) = 1
             /\ HasRun(builder.stmt,
                       <<" ", "ORDER", " ", "BY", " ", builder.orderField, " ",
                         builder.orderDir, " ", "NULL", " ",
                         IF builder.lastNull = "last" THEN "LAST" ELSE "FIRST", " ">>)
        ELSE ~HasTok(builder.stmt, "ORDER") /\ ~HasTok(builder.stmt, "NULL")

(* orderAsc(Id) overwritten by orderDesc(Name), orderNullLast before a     *)
(* later orderNullFirst                                                    *)
C22_Witness ==
    /\ builder.assembled
    /\ builder.prevOrderField = "Id"
    /\ builder.orderField = "Name"
    /\ builder.orderDir = "DESC"
    /\ builder.resets = 0
    /\ builder.lastNull = "last"
    /\ HasRun(builder.stmt, <<"ORDER", " ", "BY", " ", "Name", " ", "DESC", " ",
                              "NULL", " ", "LAST">>)

-----------------------------------------------------------------------------
(* The steps of one Do call (Spec)                                         *)

(* C23: one Do call performs at most one token exchange and sends at most  *)
(* one request to the target, whatever the outcome; over the life of the   *)
(* client there are no more exchanges and no more requests than calls.     *)
C23_NothingRetried ==
    /\ \A c \in SeqCallers :
          /\ calls[c].exchanges <= 1
          /\ Len(calls[c].sent) <= 1
          /\ calls[c].handled + calls[c].parsed <= 1
    /\ nExchanges <= nCalls

(* the second call of the client, after an exchange and a non-2xx answer *)
C23_Witness ==
    /\ nCalls = 2
    /\ nExchanges = 2
    /\ calls[1].pc = "done"
    /\ calls[1].exchanges = 1
    /\ Len(calls[1].sent) = 1
    /\ calls[1].resp.StatusCode = 500
    /\ calls[1].err.kind = "errResponse"

(* C24: in one Do call Make is invoked once and first; the request is sent *)
(* only after the token check; Handle is invoked at most once, only after  *)
(* Make succeeded and a 2xx response came in; a response of another class  *)
(* goes to the parsing of the error payload instead; neither happens when  *)
(* Make, the exchange or the transport failed.                             *)
C24_StepOrder ==
    \A c \in SeqCallers :
        /\ calls[c].pc # "idle" => calls[c].makes = 1
        /\ calls[c].checked => ~calls[c].req.isNil
        /\ calls[c].exchanges > 0 => calls[c].checked
        /\ calls[c].sent # <<>> => calls[c].checked
        /\ calls[c].handled + calls[c].parsed <= 1
        /\ calls[c].handled = 1 =>
              /\ ~calls[c].req.isNil
              /\ Len(calls[c].sent) = 1
              /\ ~calls[c].resp.isNil /\ Is2xx(calls[c].resp.StatusCode)
        /\ calls[c].parsed = 1 =>
              /\ Len(calls[c].sent) = 1
              /\ ~calls[c].resp.isNil /\ ~Is2xx(calls[c].resp.StatusCode)
        /\ Answered(calls[c]) => calls[c].handled + calls[c].parsed = 1
        /\ (calls[c].pc = "done" /\ calls[c].resp.isNil) =>
              calls[c].handled = 0 /\ calls[c].parsed = 0

(* Make, check, exchange, send, Handle *)
C24_Witness ==
    /\ calls[1].pc = "done"
    /\ calls[1].makes = 1
    /\ calls[1].checked
    /\ calls[1].exchanges = 1
    /\ Len(calls[1].sent) = 1
    /\ calls[1].resp.StatusCode = 299
    /\ calls[1].handled = 1
    /\ calls[1].parsed = 0

(* C25: after a failed exchange (transport error, non-200 answer, or a 200 *)
(* answer whose body does not decode) the oAuth holds no token that        *)
(* passes for valid, and no request is forwarded with an Authorization     *)
(* header built from the token of a failed exchange.                       *)
C25_ValidOnlyAfterSuccess ==
    \A c \in SeqCallers :
        /\ (calls[c].exchanges > 0 /\ ExchangeFailed(calls[c].exchOutcome)) =>
              (o_token.isNil \/ IsExpired(o_token, now))
        /\ \A i \in 1..Len(calls[c].sent) :
              calls[c].sent[i].Authorization \in WholeTokenHeaders

====
